---- MODULE Spec2Model ----
(***************************************************************************)
(* A model of backend/core/memory/memory_client.py: the MemoryClient       *)
(* gateway over the remote mem0 client, and the process-wide accessor      *)
(* get_memory_client.                                                      *)
(*                                                                         *)
(* Python values are modelled as strings and tagged records.  A Python     *)
(* list is modelled by the set of the records it holds: the gateway never  *)
(* reorders what the remote returns, and the remote's ranking is opaque.   *)
(* A Python dict is modelled by its set of <<key, value>> pairs.           *)
(***************************************************************************)
EXTENDS Integers, FiniteSets, Sequences, TLC

VARIABLES
    mem0Available,   \* MEM0_AVAILABLE, fixed when the module is imported
    configKey,       \* config.MEMO_API_KEY
    gw,              \* the gateway the calls are made on: MemoryClient()
    store,           \* the remote service's records
    nextId,          \* the next record identifier the remote assigns
    deleted,         \* identifiers whose delete() returned True
    accepted,        \* adds that returned True: [id, user, msg]
    heap,            \* the caller-owned metadata dicts, by reference
    remoteCalls,     \* number of calls made on gw.client
    last,            \* the last gateway call: its arguments and what it returned
    _memory_client,  \* the module global: 0 (None) or an index into instances
    instances,       \* every MemoryClient constructed so far, with its inputs
    pc,              \* per caller: its position inside get_memory_client
    fresh,           \* per caller: the object its MemoryClient() call produced
    returned         \* the objects get_memory_client has returned so far

vars == <<mem0Available, configKey, gw, store, nextId,
          deleted, accepted, heap, remoteCalls, last,
          _memory_client, instances, pc, fresh, returned>>

gatewayVars == <<mem0Available, configKey, gw>>
remoteVars == <<store, nextId, deleted, accepted, heap, remoteCalls, last>>
accessorVars == <<_memory_client, instances, pc, fresh, returned>>

----------------------------------------------------------------------------
(* Bounds of the model *)

MaxRemoteCalls == 3
MaxRecords == 2
MaxDirect == 2
NumCallers == 2

----------------------------------------------------------------------------
(* Python values *)

None == "None"

\* bool(x) for the Optional[str] values of this module
Truthy(x) == x # None /\ x # ""

\* Python's  a or b
PyOr(a, b) == IF Truthy(a) THEN a ELSE b

ApiKeys == {None, "", "k1"}
ConfigKeys == {None, "k2"}
Users == {"u1", "u2"}
Agents == {None, "a1"}
Msgs == {"m1"}
Queries == {"m1", "zz"}
SearchLimits == {1, 5}
GetAllLimits == {1, 100}
\* the service assigns 1, 2, ...; 0 is an identifier it never assigned
MemIds == 0 .. MaxRecords
CtorOutcomes == {"ok", "raise"}

PyList(S) == [type |-> "list", items |-> S, val |-> FALSE]
PyBool(b) == [type |-> "bool", items |-> {}, val |-> b]
PyStr == [type |-> "str", items |-> {}, val |-> FALSE]
PyNone == [type |-> "none", items |-> {}, val |-> FALSE]

\* len(x) is defined for lists and strings; for None it raises TypeError
Sized(v) == v.type \in {"list", "str"}

\* dict operations on sets of <<key, value>> pairs
DictSet(d, k, v) == {p \in d : p[1] # k} \cup {<<k, v>>}
DictGet(d, k) == IF \E p \in d : p[1] = k THEN (CHOOSE p \in d : p[1] = k)[2] ELSE None

----------------------------------------------------------------------------
(* MemoryClient.__init__ *)

\* the constructor without its try/except around Mem0Client(...)
MemoryClient__init__NoExcept(api_key, cfg, lib, outcome) ==
    LET key == PyOr(api_key, cfg)
        enabled0 == lib /\ Truthy(key)
    IN  IF ~enabled0
        THEN [api_key |-> key, enabled |-> FALSE, client |-> None, raised |-> FALSE]
        ELSE IF outcome = "ok"
             THEN [api_key |-> key, enabled |-> TRUE, client |-> "Mem0Client", raised |-> FALSE]
             ELSE [api_key |-> key, enabled |-> TRUE, client |-> None, raised |-> TRUE]

MemoryClient__init__(api_key, cfg, lib, outcome) ==
    LET key == PyOr(api_key, cfg)
        enabled0 == lib /\ Truthy(key)
    IN  IF ~enabled0
        THEN [api_key |-> key, enabled |-> FALSE, client |-> None, raised |-> FALSE]
        ELSE IF outcome = "ok"
             THEN [api_key |-> key, enabled |-> TRUE, client |-> "Mem0Client", raised |-> FALSE]
             ELSE [api_key |-> key, enabled |-> FALSE, client |-> None, raised |-> FALSE]


----------------------------------------------------------------------------
(* Outcome of a method body: it returns a value or raises an Exception *)

Return(v) == [ret |-> v, raised |-> FALSE]
Raise == [ret |-> PyNone, raised |-> TRUE]

\* try: body  except Exception: return sentinel
TryExcept(body, sentinel) == IF body.raised THEN Return(sentinel) ELSE body

----------------------------------------------------------------------------
(* The remote service behind Mem0Client, as the gateway's calls see it.     *)
(* A record is [id, user, agent, msg, indexed]: agent is the agent_id the   *)
(* submitted metadata carried, msg the conversation it was extracted from.  *)
(* A record is visible to search and get_all once the service indexed it.   *)

StoreIds == {r.id : r \in store}

\* the service's relevance judgement: a query is about one conversation
Relevant(query, r) == r.msg = query

\* How the service treats the agent_id keyword of search is its own affair:
\* it ignores it, matches it against the stored metadata, or matches it
\* against an agent entity that add() never sets.
AgentSemantics == {"ignored", "metadata", "entity"}

AgentMatch(sem, agent_id, r) ==
    \/ agent_id = None
    \/ sem = "ignored"
    \/ sem = "metadata" /\ r.agent = agent_id

\* the first top_k of the matches, in a ranking the service chooses
Pages(matches, top_k) ==
    {S \in SUBSET matches : Cardinality(S) = IF Cardinality(matches) < top_k THEN Cardinality(matches) ELSE top_k}

SearchMatches(st, req, sem) ==
    {r \in st : /\ r.indexed
                /\ (req.filters.user_id = None \/ r.user = req.filters.user_id)
                /\ Relevant(req.query, r)
                /\ AgentMatch(sem, req.agent_id, r)}

Response(kind, v) == [kind |-> kind, results |-> v]
NoResponse == Response("none", PyNone)

\* the shape of a response: "results" and "list" are the recognised ones, a
\* dict whose "results" entry is no list is "badresults"
Shape(resp) ==
    IF resp.kind = "results" /\ resp.results.type # "list" THEN "badresults" ELSE resp.kind

\* what client.search(...) can do: raise, or return a value of some shape
RemoteSearch(st, req) ==
    {Response("raise", PyNone), Response("notdict", PyNone), Response("nokey", PyNone),
     Response("results", PyNone), Response("results", PyStr)}
    \cup {Response("results", PyList(S)) :
            S \in UNION {Pages(SearchMatches(st, req, sem), req.top_k) : sem \in AgentSemantics}}

GetAllMatches(st, req) ==
    {r \in st : /\ r.indexed
                /\ (req.user_id = None \/ r.user = req.user_id)
                /\ (req.agent_id = None \/ r.agent = req.agent_id)}

\* what client.get_all(...) can do
RemoteGetAll(st, req) ==
    {Response("raise", PyNone), Response("notlist", PyNone)}
    \cup {Response("list", PyList(S)) : S \in Pages(GetAllMatches(st, req), req.limit)}

\* client.add(...): the service accepts the conversation or the call raises
RemoteAdd(st, id, req, fault) ==
    IF fault = "raise"
    THEN [raised |-> TRUE, store |-> st]
    ELSE [raised |-> FALSE,
          store |-> st \cup {[id |-> id, user |-> req.user_id,
                              agent |-> DictGet(req.metadata, "agent_id"),
                              msg |-> req.messages, indexed |-> FALSE]}]

\* client.delete(...): the call raises on a transport fault and on an
\* identifier the service does not know (its HTTP error status)
RemoteDelete(st, req, fault) ==
    IF fault = "raise" \/ req.memory_id \notin {r.id : r \in st}
    THEN [raised |-> TRUE, store |-> st]
    ELSE [raised |-> FALSE, store |-> {r \in st : r.id # req.memory_id}]

----------------------------------------------------------------------------
(* MemoryClient.search *)

\* the keyword arguments of the client.search call
\* the call without the user filter
SearchRequest_NoUserFilter(query, user_id, agent_id, limit) ==
    [query |-> query, agent_id |-> agent_id, top_k |-> limit, filters |-> [user_id |-> None]]

SearchRequest(query, user_id, agent_id, limit) ==
    [query |-> query, agent_id |-> agent_id, top_k |-> limit, filters |-> [user_id |-> user_id]]

\* result.get("results", []) if isinstance(result, dict) else []
SearchMemories(resp) ==
    IF resp.kind = "results" THEN resp.results ELSE PyList({})

\* the try block, given what the client call did; len(memories) is
\* evaluated for the debug message
SearchBody(self, resp) ==
    IF self.client = None \/ resp.kind = "raise"
    THEN Raise
    ELSE IF ~Sized(SearchMemories(resp)) THEN Raise ELSE Return(SearchMemories(resp))

\* search without its try/except
search_NoExcept(self, resp) ==
    IF ~self.enabled THEN Return(PyList({})) ELSE SearchBody(self, resp)

search(self, resp) ==
    IF ~self.enabled
    THEN Return(PyList({}))
    ELSE TryExcept(SearchBody(self, resp), PyList({}))

----------------------------------------------------------------------------
(* MemoryClient.get_all *)

\* the keyword arguments of the client.get_all call: agent_id is not among them
GetAllRequest(user_id, agent_id, limit) ==
    [user_id |-> user_id, agent_id |-> None, limit |-> limit]

\* result if isinstance(result, list) else []
GetAllMemories(resp) ==
    IF resp.kind = "list" THEN resp.results ELSE PyList({})

GetAllBody(self, resp) ==
    IF self.client = None \/ resp.kind = "raise" THEN Raise ELSE Return(GetAllMemories(resp))

get_all(self, resp) ==
    IF ~self.enabled
    THEN Return(PyList({}))
    ELSE TryExcept(GetAllBody(self, resp), PyList({}))

----------------------------------------------------------------------------
(* MemoryClient.add *)

\* add_metadata = metadata or {}: the caller's dict itself unless it is
\* None (ref 0) or empty, and then a new dict
AddAliases(h, ref) == ref # 0 /\ h[ref] # {}

\* the dict submitted as metadata
AddMetadata(h, ref, agent_id) ==
    LET add_metadata == IF AddAliases(h, ref) THEN h[ref] ELSE {}
    IN  IF Truthy(agent_id) THEN DictSet(add_metadata, "agent_id", agent_id) ELSE add_metadata

\* the caller's dicts after add_metadata["agent_id"] = agent_id
AddHeap(h, ref, agent_id) ==
    IF AddAliases(h, ref) THEN [h EXCEPT ![ref] = AddMetadata(h, ref, agent_id)] ELSE h

\* the arguments of the client.add call
\* the call without the user_id keyword
AddRequest_NoUser(h, messages, user_id, agent_id, ref) ==
    [messages |-> messages, user_id |-> None, metadata |-> AddMetadata(h, ref, agent_id)]

AddRequest(h, messages, user_id, agent_id, ref) ==
    [messages |-> messages, user_id |-> user_id, metadata |-> AddMetadata(h, ref, agent_id)]

AddBody(self, remote) ==
    IF self.client = None \/ remote.raised THEN Raise ELSE Return(PyBool(TRUE))

add(self, remote) ==
    IF ~self.enabled
    THEN Return(PyBool(FALSE))
    ELSE TryExcept(AddBody(self, remote), PyBool(FALSE))

----------------------------------------------------------------------------
(* MemoryClient.delete *)

DeleteRequest(memory_id) == [memory_id |-> memory_id]

DeleteBody(self, remote) ==
    IF self.client = None \/ remote.raised THEN Raise ELSE Return(PyBool(TRUE))

\* delete with the wrong value returned by its enabled guard
delete_GuardReturnsTrue(self, remote) ==
    IF ~self.enabled
    THEN Return(PyBool(TRUE))
    ELSE TryExcept(DeleteBody(self, remote), PyBool(FALSE))

\* delete with the wrong value returned by its except clause
delete_ExceptReturnsTrue(self, remote) ==
    IF ~self.enabled
    THEN Return(PyBool(FALSE))
    ELSE TryExcept(DeleteBody(self, remote), PyBool(TRUE))

delete(self, remote) ==
    IF ~self.enabled
    THEN Return(PyBool(FALSE))
    ELSE TryExcept(DeleteBody(self, remote), PyBool(FALSE))

\* whether a method reaches its client call
CallsRemote(self) == self.enabled /\ self.client # None

----------------------------------------------------------------------------
(* The initial state: the module is imported and the gateway the calls are *)
(* made on is constructed as get_memory_client constructs it               *)

Callers == 1 .. NumCallers

\* the metadata dicts the callers own: one with an entry, one empty
CallerMaps == <<{<<"test", "yes">>}, {}>>
MetaRefs == 0 .. Len(CallerMaps)

NoCall ==
    [op |-> "none", query |-> None, user_id |-> None, agent_id |-> None, limit |-> 0,
     memory_id |-> 0, ref |-> 0, messages |-> None, called |-> FALSE, resp |-> "none",
     sent |-> {}, known |-> FALSE, expect |-> {}, out |-> Return(PyNone)]

Init ==
    /\ mem0Available \in BOOLEAN
    /\ configKey \in ConfigKeys
    /\ \E outcome \in CtorOutcomes :
          gw = MemoryClient__init__(None, configKey, mem0Available, outcome)
    /\ store = {}
    /\ nextId = 1
    /\ deleted = {}
    /\ accepted = {}
    /\ heap = CallerMaps
    /\ remoteCalls = 0
    /\ last = NoCall
    /\ _memory_client = 0
    /\ instances = <<>>
    /\ pc = [c \in Callers |-> "idle"]
    /\ fresh = [c \in Callers |-> 0]
    /\ returned = {}

----------------------------------------------------------------------------
(* Calls on the gateway *)

\* a call that reaches the client is counted; the model stops counting at a bound
MayCall == ~CallsRemote(gw) \/ remoteCalls < MaxRemoteCalls
Count == IF CallsRemote(gw) THEN remoteCalls + 1 ELSE remoteCalls

\* history for the properties: the records of conversations that add()
\* accepted under user_id about query, and that the service has indexed
Findable(query, user_id) ==
    {r \in store : /\ r.indexed
                   /\ \E a \in accepted : a.id = r.id /\ a.user = user_id /\ a.msg = query}

Search(query, user_id, agent_id, limit) ==
    /\ MayCall
    /\ \E resp \in (IF CallsRemote(gw)
                    THEN RemoteSearch(store, SearchRequest(query, user_id, agent_id, limit))
                    ELSE {NoResponse}) :
          last' = [NoCall EXCEPT !.op = "search", !.query = query, !.user_id = user_id,
                                 !.agent_id = agent_id, !.limit = limit,
                                 !.called = CallsRemote(gw), !.resp = Shape(resp),
                                 !.expect = Findable(query, user_id),
                                 !.out = search(gw, resp)]
    /\ remoteCalls' = Count
    /\ UNCHANGED <<store, nextId, deleted, accepted, heap>>
    /\ UNCHANGED <<gatewayVars, accessorVars>>

GetAll(user_id, agent_id, limit) ==
    /\ MayCall
    /\ \E resp \in (IF CallsRemote(gw)
                    THEN RemoteGetAll(store, GetAllRequest(user_id, agent_id, limit))
                    ELSE {NoResponse}) :
          last' = [NoCall EXCEPT !.op = "get_all", !.user_id = user_id,
                                 !.agent_id = agent_id, !.limit = limit,
                                 !.called = CallsRemote(gw), !.resp = Shape(resp),
                                 !.out = get_all(gw, resp)]
    /\ remoteCalls' = Count
    /\ UNCHANGED <<store, nextId, deleted, accepted, heap>>
    /\ UNCHANGED <<gatewayVars, accessorVars>>

Add(messages, user_id, agent_id, ref) ==
    /\ MayCall
    /\ \E fault \in (IF CallsRemote(gw) THEN {"ok", "raise"} ELSE {"none"}) :
          LET req == AddRequest(heap, messages, user_id, agent_id, ref)
              remote == IF CallsRemote(gw)
                        THEN RemoteAdd(store, nextId, req, fault)
                        ELSE [raised |-> FALSE, store |-> store]
              out == add(gw, remote)
          IN  /\ fault = "ok" => nextId <= MaxRecords
              /\ store' = remote.store
              /\ nextId' = IF remote.store # store THEN nextId + 1 ELSE nextId
              /\ accepted' = IF out = Return(PyBool(TRUE))
                             THEN accepted \cup {[id |-> nextId, user |-> user_id, msg |-> messages]}
                             ELSE accepted
              /\ heap' = IF gw.enabled THEN AddHeap(heap, ref, agent_id) ELSE heap
              /\ last' = [NoCall EXCEPT !.op = "add", !.messages = messages,
                                        !.user_id = user_id, !.agent_id = agent_id,
                                        !.ref = ref, !.called = CallsRemote(gw),
                                        !.resp = fault,
                                        !.sent = IF CallsRemote(gw) THEN req.metadata ELSE {},
                                        !.out = out]
    /\ remoteCalls' = Count
    /\ UNCHANGED deleted
    /\ UNCHANGED <<gatewayVars, accessorVars>>

Delete(memory_id) ==
    /\ MayCall
    /\ \E fault \in (IF CallsRemote(gw) THEN {"ok", "raise"} ELSE {"none"}) :
          LET remote == IF CallsRemote(gw)
                        THEN RemoteDelete(store, DeleteRequest(memory_id), fault)
                        ELSE [raised |-> FALSE, store |-> store]
              out == delete(gw, remote)
          IN  /\ store' = remote.store
              /\ deleted' = IF out = Return(PyBool(TRUE)) THEN deleted \cup {memory_id} ELSE deleted
              /\ last' = [NoCall EXCEPT !.op = "delete", !.memory_id = memory_id,
                                        !.called = CallsRemote(gw),
                                        !.known = (memory_id \in StoreIds),
                                        !.resp = IF remote.raised THEN "raise" ELSE fault,
                                        !.out = out]
    /\ remoteCalls' = Count
    /\ UNCHANGED <<nextId, accepted, heap>>
    /\ UNCHANGED <<gatewayVars, accessorVars>>

\* the service finishes extracting and indexing a submitted conversation
RemoteIndex(id) ==
    /\ \E r \in store : r.id = id /\ ~r.indexed
    /\ store' = {[r EXCEPT !.indexed = (r.indexed \/ r.id = id)] : r \in store}
    /\ UNCHANGED <<nextId, deleted, accepted, heap, remoteCalls, last>>
    /\ UNCHANGED <<gatewayVars, accessorVars>>

Next ==
    \/ \E q \in Queries, u \in Users, a \in Agents, k \in SearchLimits : Search(q, u, a, k)
    \/ \E u \in Users, a \in Agents, k \in GetAllLimits : GetAll(u, a, k)
    \/ \E m \in Msgs, u \in Users, a \in Agents, ref \in MetaRefs : Add(m, u, a, ref)
    \/ \E id \in MemIds : Delete(id)
    \/ \E id \in MemIds : RemoteIndex(id)

Spec == Init /\ [][Next]_vars

\* The calls an add-then-search scenario is made of: add, delete, and
\* searches by user_id about a conversation that was submitted; the
\* service's indexing step is weakly fair: it eventually indexes what it
\* accepted.
FairNext ==
    \/ \E q \in Msgs, u \in Users, k \in SearchLimits : Search(q, u, None, k)
    \/ \E m \in Msgs, u \in Users, a \in Agents, ref \in MetaRefs : Add(m, u, a, ref)
    \/ \E id \in MemIds : Delete(id)
    \/ \E id \in MemIds : RemoteIndex(id)

FairSpec == Init /\ [][FairNext]_vars /\ WF_vars(\E id \in MemIds : RemoteIndex(id))

----------------------------------------------------------------------------
(* Construction, and the process-wide accessor get_memory_client.          *)
(* A caller is a thread of the process; the statements of the accessor     *)
(* are its steps: the test of the global, the constructor call, the store  *)
(* to the global, and the read of the global for the return.               *)

Constructed(api_key, outcome) ==
    [self |-> MemoryClient__init__(api_key, configKey, mem0Available, outcome),
     api_key |-> api_key, outcome |-> outcome, direct |-> TRUE]

\* MemoryClient(api_key) called by client code
Construct(api_key, outcome) ==
    /\ Cardinality({i \in DOMAIN instances : instances[i].direct}) < MaxDirect
    /\ instances' = Append(instances, Constructed(api_key, outcome))
    /\ UNCHANGED <<_memory_client, pc, fresh, returned>>
    /\ UNCHANGED <<gatewayVars, remoteVars>>

\* if _memory_client is None:
TestNone(c) ==
    /\ pc[c] = "idle"
    /\ pc' = [pc EXCEPT ![c] = IF _memory_client = 0 THEN "construct" ELSE "return"]
    /\ UNCHANGED <<_memory_client, instances, fresh, returned>>
    /\ UNCHANGED <<gatewayVars, remoteVars>>

\* MemoryClient()
CallConstructor(c, outcome) ==
    /\ pc[c] = "construct"
    /\ instances' = Append(instances, [Constructed(None, outcome) EXCEPT !.direct = FALSE])
    /\ fresh' = [fresh EXCEPT ![c] = Len(instances) + 1]
    /\ pc' = [pc EXCEPT ![c] = "assign"]
    /\ UNCHANGED <<_memory_client, returned>>
    /\ UNCHANGED <<gatewayVars, remoteVars>>

\* _memory_client = <the new object>
Assign(c) ==
    /\ pc[c] = "assign"
    /\ _memory_client' = fresh[c]
    /\ fresh' = [fresh EXCEPT ![c] = 0]
    /\ pc' = [pc EXCEPT ![c] = "return"]
    /\ UNCHANGED <<instances, returned>>
    /\ UNCHANGED <<gatewayVars, remoteVars>>

\* return _memory_client
ReturnGlobal(c) ==
    /\ pc[c] = "return"
    /\ returned' = returned \cup {_memory_client}
    /\ pc' = [pc EXCEPT ![c] = "idle"]
    /\ UNCHANGED <<_memory_client, instances, fresh>>
    /\ UNCHANGED <<gatewayVars, remoteVars>>

AccessorNext ==
    \/ \E c \in Callers : TestNone(c)
    \/ \E c \in Callers, o \in CtorOutcomes : CallConstructor(c, o)
    \/ \E c \in Callers : Assign(c)
    \/ \E c \in Callers : ReturnGlobal(c)

AccessorSpec == Init /\ [][AccessorNext]_vars

\* construction alone, with every api_key argument
ConstructNext == \E k \in ApiKeys, o \in CtorOutcomes : Construct(k, o)

ConstructSpec == Init /\ [][ConstructNext]_vars

----------------------------------------------------------------------------
(* Properties *)

\* the value a method returns when it fails
Sentinel(op) == IF op \in {"search", "get_all"} THEN PyList({}) ELSE PyBool(FALSE)

IsCall == last.op \in {"search", "add", "get_all", "delete"}

\* C1: a gateway that construction left disabled answers every search, add,
\* get_all and delete with the method's sentinel, and no call ever reaches
\* the remote client: the call count stays zero and the service holds nothing.
C1_DisabledIsInert ==
    ~gw.enabled =>
        /\ remoteCalls = 0
        /\ ~last.called
        /\ store = {}
        /\ IsCall => last.out = Return(Sentinel(last.op))

C1_Witness == ~gw.enabled /\ last.op = "delete" /\ last.out = Return(PyBool(FALSE))

\* C2: on an enabled gateway, a call whose remote client call raised returns
\* the method's sentinel, and no call of any method lets an exception out.
C2_ErrorsBecomeSentinels ==
    /\ ~last.out.raised
    /\ (gw.enabled /\ IsCall /\ last.called /\ last.resp = "raise")
          => last.out = Return(Sentinel(last.op))

C2_Witness == gw.enabled /\ last.op = "search" /\ last.called /\ last.resp = "raise"

\* C3: every construction returns normally, and leaves enabled true exactly
\* when the library is present, the argument or else the configured key is
\* non-empty, and Mem0Client(...) succeeded; otherwise enabled is false and
\* client is None.
C3_EnabledIff ==
    \A i \in DOMAIN instances :
        LET o == instances[i] IN
        /\ ~o.self.raised
        /\ o.self.enabled <=> /\ mem0Available
                              /\ Truthy(o.api_key) \/ Truthy(configKey)
                              /\ o.outcome = "ok"
        /\ o.self.enabled => o.self.client # None
        /\ ~o.self.enabled => o.self.client = None

C3_Witness ==
    /\ \E i \in DOMAIN instances : instances[i].self.enabled /\ instances[i].api_key = ""
    /\ \E i \in DOMAIN instances :
          /\ mem0Available /\ instances[i].api_key = "k1"
          /\ instances[i].outcome = "raise" /\ ~instances[i].self.enabled

\* C4: every record a search with user_id u returns comes from an add that
\* was made under u; no record added under another user is returned.
C4_SearchIsolatesUsers ==
    last.op = "search" =>
        \A r \in last.out.ret.items :
            \E a \in accepted : a.id = r.id /\ a.user = last.user_id

C4_Witness ==
    /\ last.op = "search" /\ last.out.ret.items # {}
    /\ \E r \in store : r.indexed /\ r.user # last.user_id /\ Relevant(last.query, r)

\* C5: a delete that the remote carried out on an identifier it holds returns
\* True, and no later get_all or search returns that identifier; a delete of
\* an identifier the remote does not hold returns False and does not raise.
C5_DeleteReportsOutcome ==
    /\ (last.op = "delete" /\ last.called /\ last.known /\ last.resp = "ok")
          => /\ last.out = Return(PyBool(TRUE))
             /\ last.memory_id \in deleted
             /\ last.memory_id \notin StoreIds
    /\ (last.op = "delete" /\ ~last.known) => last.out = Return(PyBool(FALSE))
    /\ last.op \in {"get_all", "search"}
          => \A r \in last.out.ret.items : r.id \notin deleted

C5_Witness ==
    /\ last.op = "get_all" /\ last.resp = "list"
    /\ \E a \in accepted : a.id \in deleted /\ a.user = last.user_id

\* C6: search and get_all return a list whatever the remote answered, and
\* the empty list whenever the answer is not of the recognised shape (for
\* search a dict holding a list under "results", for get_all a list).
C6_AlwaysAList ==
    last.op \in {"search", "get_all"} =>
        /\ last.out.ret.type = "list"
        /\ last.resp \notin {"results", "list"} => last.out.ret.items = {}

\* C7: an add that the remote accepted returned True; the conversation it
\* submitted is eventually indexed unless it is deleted first; and from then
\* on a search about it under the same user_id, without agent_id, answered
\* in the recognised shape and with a limit that covers the user's matching
\* records, returns its record.
C7_AddThenSearchFinds ==
    /\ [](last.op = "add" /\ last.called /\ last.resp = "ok"
            => /\ last.out = Return(PyBool(TRUE))
               /\ \E a \in accepted : a.user = last.user_id /\ a.msg = last.messages)
    /\ \A id \in MemIds \ {0} :
          (\E a \in accepted : a.id = id)
             ~> (id \notin StoreIds \/ \E r \in store : r.id = id /\ r.indexed)
    /\ [](last.op = "search" /\ last.resp = "results" /\ last.out.ret.type = "list"
             /\ last.agent_id = None /\ Cardinality(last.expect) <= last.limit
            => last.expect \subseteq last.out.ret.items)

C7_Witness ==
    /\ last.op = "search" /\ last.agent_id = None
    /\ last.expect # {} /\ last.expect \subseteq last.out.ret.items

\* C8: get_memory_client returns one and the same object to every caller,
\* and the constructor runs at most once in the process.
C8_Singleton ==
    /\ Cardinality(returned) <= 1
    /\ Len(instances) <= 1

\* C9: a get_all with an agent_id returns only records associated with that
\* agent (and with the user_id given).
C9_GetAllScopedByAgent ==
    (last.op = "get_all" /\ Truthy(last.agent_id)) =>
        \A r \in last.out.ret.items : r.agent = last.agent_id /\ r.user = last.user_id

\* what a call is to submit: the dict its caller wrote, plus its own agent_id
ExpectedMetadata(ref, agent_id) ==
    LET own == IF ref = 0 THEN {} ELSE CallerMaps[ref]
    IN  IF Truthy(agent_id) THEN DictSet(own, "agent_id", agent_id) ELSE own

\* C10: the metadata an add call submits is the dict its caller wrote (empty
\* for None), with agent_id added exactly when the call's agent_id is given,
\* whatever adds came before; and add leaves the caller's dicts as they were.
C10_AddIsIndependent ==
    /\ heap = CallerMaps
    /\ (last.op = "add" /\ last.called) => last.sent = ExpectedMetadata(last.ref, last.agent_id)

====
